---- MODULE Spec2Model ----
(***************************************************************************)
(* The Knowledge Domain Store of servers/context.py: domains are tables of *)
(* one LanceDB store, documents are rows of the Document schema, and the   *)
(* handlers create_domain, delete_domain, list_domains, add_knowledge and  *)
(* search act on the store.  The store is a directory shared by every      *)
(* server process started on it, so the database calls of one search       *)
(* interleave with the handlers of other processes.                        *)
(*                                                                         *)
(* Spec is one server process on a new store, SpecShared several processes *)
(* on one store, SpecStore one process on a store that already holds rows. *)
(***************************************************************************)
EXTENDS Integers, Sequences, FiniteSets, TLC

(***************************************************************************)
(* Bounds of the model.                                                    *)
(***************************************************************************)
\* rows one table may hold when one server process uses the store
MaxDocs == 2
\* handler calls of other processes that may land inside one search
MaxConcurrent == 1
\* rows one table may hold when several processes share the store
MaxSharedDocs == 1

(***************************************************************************)
(* Python values.  None is the string "None" where the type is str | None  *)
(* (domain, source); structured values are tagged tuples.                  *)
(***************************************************************************)
None == "None"

PyNone == <<"None">>
PyNum(s) == <<"num", s>>
PyBool(s) == <<"bool", s>>
PyStr(s) == <<"str", s>>
PyDict(pairs) == <<"dict", pairs>>
\* a str value holding JSON text, as a sequence of tokens
PyText(toks) == <<"text", toks>>

NumTokens == {"0", "0.9", "1"}

\* Python truthiness, as used by `if metadata`, `if domain`, `if r.get(...)`
truthy(v) ==
    CASE v[1] = "None" -> FALSE
      [] v[1] = "num"  -> v[2] # "0"
      [] v[1] = "bool" -> v[2] = "true"
      [] v[1] = "str"  -> v[2] # ""
      [] v[1] = "dict" -> v[2] # <<>>
      [] v[1] = "text" -> v[2] # <<>>

truthy_str(s) == s # None /\ s # ""

(***************************************************************************)
(* pydantic_core.to_json / from_json on the values above.                  *)
(***************************************************************************)
RECURSIVE json_tokens(_)
RECURSIVE json_members(_)

json_members(pairs) ==
    IF pairs = <<>> THEN <<>>
    ELSE <<"\"", Head(pairs)[1], "\"", ":">> \o json_tokens(Head(pairs)[2])
         \o (IF Tail(pairs) = <<>> THEN <<>> ELSE <<",">> \o json_members(Tail(pairs)))

json_tokens(v) ==
    CASE v[1] = "None" -> <<"null">>
      [] v[1] = "num"  -> <<v[2]>>
      [] v[1] = "bool" -> <<v[2]>>
      [] v[1] = "str"  -> <<"\"", v[2], "\"">>
      [] v[1] = "dict" -> <<"{">> \o json_members(v[2]) \o <<"}">>

\* to_json(value).decode("utf-8")
to_json(v) == PyText(json_tokens(v))

ParseFail == [ok |-> FALSE, val |-> PyNone, rest |-> <<>>]
ParseOk(v, rest) == [ok |-> TRUE, val |-> v, rest |-> rest]

RECURSIVE parse_value(_)
RECURSIVE parse_members(_, _)

\* members of an object after "{" or ","; acc holds the pairs read so far
parse_members(toks, acc) ==
    IF Len(toks) < 5 \/ toks[1] # "\"" \/ toks[3] # "\"" \/ toks[4] # ":"
    THEN ParseFail
    ELSE LET v == parse_value(SubSeq(toks, 5, Len(toks)))
             pairs == Append(acc, <<toks[2], v.val>>)
         IN  IF ~v.ok \/ v.rest = <<>> THEN ParseFail
             ELSE IF Head(v.rest) = "}" THEN ParseOk(PyDict(pairs), Tail(v.rest))
             ELSE IF Head(v.rest) = "," THEN parse_members(Tail(v.rest), pairs)
             ELSE ParseFail

parse_value(toks) ==
    IF toks = <<>> THEN ParseFail
    ELSE LET t == Head(toks)
             r == Tail(toks)
         IN  CASE t = "null" -> ParseOk(PyNone, r)
               [] t \in {"true", "false"} -> ParseOk(PyBool(t), r)
               [] t \in NumTokens -> ParseOk(PyNum(t), r)
               [] t = "\"" ->
                    IF Len(r) >= 2 /\ r[2] = "\""
                    THEN ParseOk(PyStr(r[1]), SubSeq(r, 3, Len(r)))
                    ELSE ParseFail
               [] t = "{" ->
                    IF r # <<>> /\ Head(r) = "}" THEN ParseOk(PyDict(<<>>), Tail(r))
                    ELSE parse_members(r, <<>>)
               [] OTHER -> ParseFail

\* from_json(text) raises on text that is not one JSON value
from_json_ok(text) ==
    LET p == parse_value(text[2]) IN p.ok /\ p.rest = <<>>

from_json(text) == parse_value(text[2]).val

(***************************************************************************)
(* The store: one table per domain name, each row a Document.              *)
(***************************************************************************)
Names == {"A", "B"}
\* db.table_names() lists the tables in name order
TableOrder == <<"A", "B">>

Queries == {"sky color"}

\* the embedding provider: text -> vector (a fixed function of the text)
Embed(text) ==
    CASE text = "sky color"       -> <<1, 0>>
      [] text = "The sky is blue" -> <<1, 1>>
      [] text = "sea"             -> <<3, 0>>
      [] text = "x"               -> <<1, 3>>

\* the engine's distance between two vectors (squared L2)
distance(v, w) ==
    (v[1] - w[1]) * (v[1] - w[1]) + (v[2] - w[2]) * (v[2] - w[2])

\* the arguments (text, source, metadata) add_knowledge is called with
AddInputs ==
    { [text |-> "The sky is blue", source |-> "obs1",
       metadata |-> PyDict(<< <<"confidence", PyNum("0.9")>>, <<"n", PyNum("0")>> >>)],
      [text |-> "sea", source |-> None, metadata |-> PyNone],
      [text |-> "x", source |-> "obs1", metadata |-> PyDict(<<>>)] }

Absent == [live |-> FALSE, rows |-> <<>>]
EmptyTable == [live |-> TRUE, rows |-> <<>>]

\* class Document(LanceModel): a stored row
Document(text, source, metadata) ==
    [text |-> text, vector |-> Embed(text), source |-> source, metadata |-> metadata]

VARIABLES
    tables,      \* the store: name -> [live, rows]
    last,        \* the handler called last and what it returned
    pc,          \* position of the search call: idle, open, query, done, raised
    query,       \* search argument
    domain,      \* search argument
    limit,       \* search argument
    domains,     \* search local: the target names
    idx,         \* search local: position of the for loop in domains
    handle,      \* search local: the table opened for domains[idx]
    results,     \* search local: the merged output
    mut,         \* history: name -> handlers that changed it since the search began
                 \* ("late_delete": a delete after the search was done with the name)
    deadAtOpen,  \* history: names that were not live when the search opened them
    opened,      \* history: the names this search called open_table with, in order
    queried,     \* history: the names whose table this search queried, in order
    conc,        \* history: handler calls landed inside the running search
    overwritten, \* history: names whose rows a create_domain replaced, none added since
    env          \* the deployment and the range of its calls' arguments, fixed by
                 \* the initial state

vars == <<tables, last, pc, query, domain, limit, domains, idx, handle, results,
          mut, deadAtOpen, opened, queried, conc, overwritten, env>>
searchVars == <<pc, query, domain, limit, domains, idx, handle, results, deadAtOpen,
                opened, queried>>

Live(t) == {n \in Names : t[n].live}

\* create_table that keeps a table it finds (mode="create", exist_ok=True)
create_table_exist_ok(t, name) ==
    IF t[name].live THEN t ELSE [t EXCEPT ![name] = [live |-> TRUE, rows |-> <<>>]]

\* db.create_table(name, schema=Document, mode="overwrite")
create_table(t, name) == [t EXCEPT ![name] = EmptyTable]

\* drop_table that empties the whole store
drop_table_all(t, name) == [n \in Names |-> Absent]

\* drop_table that removes nothing
drop_table_noop(t, name) == t

\* db.drop_table(name); raises when the table does not exist
drop_table(t, name) == [t EXCEPT ![name] = Absent]

\* table_names that still lists the names of dropped tables
table_names_all(t) == TableOrder

\* db.table_names()
table_names(t) == SelectSeq(TableOrder, LAMBDA n : t[n].live)

\* open_table that opens (creates) a table for any name
can_open_any(t, name) == TRUE

\* db.open_table(name) raises when the table does not exist
can_open(t, name) == name \in Names /\ t[name].live

\* the metadata column written by add_knowledge
stored_metadata(metadata) == IF truthy(metadata) THEN to_json(metadata) ELSE PyNone

\* table.add that stores the text without its source
table_add_unsourced(t, name, doc) ==
    [t EXCEPT ![name].rows =
        Append(@, Document(doc.text, None, stored_metadata(doc.metadata)))]

\* table.add([data])
table_add(t, name, doc) ==
    [t EXCEPT ![name].rows =
        Append(@, Document(doc.text, doc.source, stored_metadata(doc.metadata)))]

\* table.add that writes the row before it embeds the text
table_add_failed_partial(t, name, doc) ==
    [t EXCEPT ![name].rows =
        Append(@, [text |-> doc.text, source |-> doc.source,
                   metadata |-> stored_metadata(doc.metadata), vector |-> <<0, 0>>])]

\* table.add([data]) raising: the vector column is computed from the text
\* before anything is written, so a failed add writes no row
table_add_failed(t, name, doc) == t

NoCall == [op |-> "none", name |-> None, ret |-> "", err |-> "", value |-> <<>>]
Call(op, name, ret, err) ==
    [op |-> op, name |-> name, ret |-> ret, err |-> err, value |-> <<>>]
\* a call that returned a list
Listed(op, names) == [op |-> op, name |-> None, ret |-> "", err |-> "", value |-> names]

Running == pc \in {"open", "query"}
Returning == pc \in {"done", "raised"}

\* the names the running search is done with
Passed == {domains[j] : j \in 1..(idx - 1)}

\* a handler of another process lands: inside a running search it is recorded
Lands(kind, name, changed) ==
    /\ ~Returning
    /\ Running => conc < env.calls
    /\ conc' = IF Running THEN conc + 1 ELSE conc
    /\ mut' = IF Running /\ changed
              THEN [mut EXCEPT ![name] =
                      @ \cup {kind} \cup (IF kind = "delete" /\ name \in Passed
                                          THEN {"late_delete"} ELSE {})]
              ELSE mut
    /\ UNCHANGED <<searchVars, env>>

create_domain(name) ==
    \E fault \in BOOLEAN :
        IF fault
        THEN /\ last' = Call("create_domain", name, "Failed to create domain", "storage")
             /\ Lands("create", name, FALSE)
             /\ UNCHANGED <<tables, overwritten>>
        ELSE /\ tables' = create_table(tables, name)
             /\ last' = Call("create_domain", name, "Created domain", "")
             /\ Lands("create", name, TRUE)
             /\ overwritten' = IF tables[name].rows # <<>>
                               THEN overwritten \cup {name} ELSE overwritten

delete_domain(name) ==
    \E fault \in BOOLEAN :
        IF ~tables[name].live
        THEN /\ last' = Call("delete_domain", name, "Failed to delete domain", "notfound")
             /\ Lands("delete", name, FALSE)
             /\ UNCHANGED <<tables, overwritten>>
        ELSE IF fault
        THEN /\ last' = Call("delete_domain", name, "Failed to delete domain", "storage")
             /\ Lands("delete", name, FALSE)
             /\ UNCHANGED <<tables, overwritten>>
        ELSE /\ tables' = drop_table(tables, name)
             /\ last' = Call("delete_domain", name, "Deleted domain", "")
             /\ Lands("delete", name, TRUE)
             /\ overwritten' = overwritten \ {name}

\* return list(db.table_names()): there is no try here, a storage fault
\* leaves the handler by an exception. It writes nothing, so a call of it
\* inside another process's search is the same as one before or after it
list_domains ==
    /\ ~Running
    /\ \E fault \in BOOLEAN :
          last' = IF fault THEN Call("list_domains", None, "", "raised")
                  ELSE Listed("list_domains", table_names(tables))
    /\ Lands("list", None, FALSE)
    /\ UNCHANGED <<tables, overwritten>>

\* table.add embeds the text through the provider before it writes the row: a
\* failure of the provider leaves by the same except clause as any other
add_knowledge(name, doc) ==
    \E fault \in {"", "upstream"} :
        IF ~can_open(tables, name)
        THEN /\ last' = Call("add_knowledge", name, "Failed to add knowledge", "notfound")
             /\ Lands("add", name, FALSE)
             /\ UNCHANGED <<tables, overwritten>>
        ELSE IF fault # ""
        THEN /\ tables' = table_add_failed(tables, name, doc)
             /\ last' = Call("add_knowledge", name, "Failed to add knowledge", fault)
             /\ Lands("add", name, FALSE)
             /\ UNCHANGED overwritten
        ELSE /\ Len(tables[name].rows) < env.rows
             /\ tables' = table_add(tables, name, doc)
             /\ last' = Call("add_knowledge", name, "Added knowledge", "")
             /\ Lands("add", name, TRUE)
             /\ overwritten' = overwritten \ {name}

(***************************************************************************)
(* search(query, domain, limit)                                            *)
(***************************************************************************)
\* a hit tagged with the first name of the store, whatever table it is from
Hit_first(r, metadata, d) ==
    [kind |-> "hit", text |-> r.text, source |-> r.source, metadata |-> metadata,
     distance |-> r.distance, domain |-> TableOrder[1], error |-> ""]

\* an element of the list search returns: a hit r with r["domain"] = d ...
Hit(r, metadata, d) ==
    [kind |-> "hit", text |-> r.text, source |-> r.source, metadata |-> metadata,
     distance |-> r.distance, domain |-> d, error |-> ""]

\* ... or {"error": "Failed to search domain 'd': <e>"}
Failure(d, e) ==
    [kind |-> "error", text |-> "", source |-> None, metadata |-> PyNone,
     distance |-> 0, domain |-> d, error |-> e]

\* a query that returns the rows in the order they were added
by_distance_unsorted(rows, qv) == rows

RECURSIVE by_distance(_, _)
\* the rows in ascending distance to the query vector qv, ties in row order
by_distance(rows, qv) ==
    IF rows = <<>> THEN <<>>
    ELSE LET r == rows[Len(rows)]
             s == by_distance(SubSeq(rows, 1, Len(rows) - 1), qv)
             k == Cardinality({j \in 1..Len(s) :
                                 distance(s[j].vector, qv) <= distance(r.vector, qv)})
         IN  SubSeq(s, 1, k) \o <<r>> \o SubSeq(s, k + 1, Len(s))

Min(a, b) == IF a <= b THEN a ELSE b

\* table.search(query).select([...]).limit(limit).to_list()
to_list(rows, q, lim) ==
    LET s == by_distance(rows, Embed(q))
    IN  [j \in 1..Min(lim, Len(s)) |->
            [text |-> s[j].text, source |-> s[j].source, metadata |-> s[j].metadata,
             distance |-> distance(s[j].vector, Embed(q))]]

RECURSIVE collect(_, _, _)
\* the loop over search_results inside the try: hits are appended one by one,
\* and an exception of from_json leaves the loop for the except clause
collect(rs, d, acc) ==
    IF rs = <<>> THEN acc
    ELSE LET r == Head(rs)
         IN  IF truthy(r.metadata)
             THEN IF from_json_ok(r.metadata)
                  THEN collect(Tail(rs), d, Append(acc, Hit(r, from_json(r.metadata), d)))
                  ELSE Append(acc, Failure(d, "json"))
             ELSE collect(Tail(rs), d, Append(acc, Hit(r, r.metadata, d)))

SearchDomains == Names \cup {None, ""}

\* domains = [domain] if domain else db.table_names()
targets(dom, t) == IF truthy_str(dom) THEN <<dom>> ELSE table_names(t)

\* results = []; domains = ...: db.table_names() is outside the try, and a
\* storage fault in it leaves search by an exception
SearchStart(q, dom, lim) ==
    /\ pc = "idle"
    /\ query' = q
    /\ domain' = dom
    /\ limit' = lim
    /\ results' = <<>>
    /\ idx' = 1
    /\ handle' = Absent
    /\ \E fault \in BOOLEAN :
          IF fault /\ ~truthy_str(dom)
          THEN domains' = <<>> /\ pc' = "raised"
          ELSE /\ domains' = targets(dom, tables)
               /\ pc' = IF domains' = <<>> THEN "done" ELSE "open"
    /\ last' = Call("search", None, "", "")
    /\ mut' = [n \in Names |-> {}]
    /\ deadAtOpen' = {}
    /\ opened' = <<>>
    /\ queried' = <<>>
    /\ conc' = 0
    /\ UNCHANGED <<tables, overwritten, env>>

\* the loop with `limit` applied to the merged list
Advance_capped(res) ==
    /\ results' = SubSeq(res, 1, Min(limit, Len(res)))
    /\ handle' = Absent
    /\ domains' = domains
    /\ IF idx = Len(domains)
       THEN pc' = "done" /\ idx' = idx
       ELSE pc' = "open" /\ idx' = idx + 1

\* the loop with the target list evaluated again on every round
Advance_relist(res) ==
    /\ results' = res
    /\ handle' = Absent
    /\ domains' = targets(domain, tables)
    /\ IF idx >= Len(domains')
       THEN pc' = "done" /\ idx' = idx
       ELSE pc' = "open" /\ idx' = idx + 1

\* the loop with `results = []` inside it
Advance_fresh(res) ==
    /\ results' = SubSeq(res, Len(results) + 1, Len(res))
    /\ handle' = Absent
    /\ domains' = domains
    /\ IF idx = Len(domains)
       THEN pc' = "done" /\ idx' = idx
       ELSE pc' = "open" /\ idx' = idx + 1

\* the loop with one more try for a domain that failed
Advance_retry(res) ==
    /\ results' = res
    /\ handle' = Absent
    /\ domains' = domains
    /\ IF /\ res # <<>>
          /\ res[Len(res)].kind = "error"
          /\ \A i \in DOMAIN results : results[i].domain # domains[idx]
       THEN pc' = "open" /\ idx' = idx
       ELSE IF idx = Len(domains)
       THEN pc' = "done" /\ idx' = idx
       ELSE pc' = "open" /\ idx' = idx + 1

\* for d in domains: the loop moves on to the next name of the list it was
\* given, or search returns
Advance(res) ==
    /\ results' = res
    /\ handle' = Absent
    /\ domains' = domains
    /\ IF idx = Len(domains)
       THEN pc' = "done" /\ idx' = idx
       ELSE pc' = "open" /\ idx' = idx + 1

\* table = db.open_table(d)
SearchOpen ==
    /\ pc = "open"
    /\ LET d == domains[idx]
       IN  \E fault \in BOOLEAN :
             IF ~can_open(tables, d)
             THEN Advance(Append(results, Failure(d, "notfound")))
             ELSE IF fault
             THEN Advance(Append(results, Failure(d, "storage")))
             ELSE /\ handle' = tables[d]
                  /\ pc' = "query"
                  /\ UNCHANGED <<domains, idx, results>>
    /\ deadAtOpen' = IF domains[idx] \in Live(tables) THEN deadAtOpen
                     ELSE deadAtOpen \cup {domains[idx]}
    /\ opened' = Append(opened, domains[idx])
    /\ UNCHANGED <<tables, last, query, domain, limit, mut, queried, conc,
                   overwritten, env>>

\* what the opened table reads: its rows as opened; when the table was
\* changed by another process since, the engine decides between the rows as
\* opened, the rows now, and an error for a table that is gone
Reads ==
    LET now == tables[domains[idx]]
    IN  {[ok |-> TRUE, rows |-> handle.rows]}
        \cup (IF now.live /\ now # handle THEN {[ok |-> TRUE, rows |-> now.rows]} ELSE {})
        \cup (IF ~now.live THEN {[ok |-> FALSE, rows |-> <<>>]} ELSE {})

\* the query (embedded by the provider) and the loop over its results; the
\* code passes query and limit on as they came: the provider rejects an empty
\* text, and the engine decides whether .limit() of a number below 1 raises
\* or yields no row, each inside the try
SearchQuery ==
    /\ pc = "query"
    /\ LET d == domains[idx]
       IN  \E upstream \in BOOLEAN, rejected \in BOOLEAN, rd \in Reads :
             IF upstream \/ query = ""
             THEN Advance(Append(results, Failure(d, "upstream")))
             ELSE IF rejected /\ limit <= 0
             THEN Advance(Append(results, Failure(d, "invalid")))
             ELSE IF ~rd.ok
             THEN Advance(Append(results, Failure(d, "notfound")))
             ELSE Advance(collect(to_list(rd.rows, query, limit), d, results))
    /\ queried' = Append(queried, domains[idx])
    /\ UNCHANGED <<tables, last, query, domain, limit, mut, deadAtOpen, opened, conc,
                   overwritten, env>>

\* return results (or the exception leaves search)
SearchReturn ==
    /\ Returning
    /\ pc' = "idle"
    /\ query' = None
    /\ domain' = None
    /\ limit' = 0
    /\ domains' = <<>>
    /\ idx' = 0
    /\ handle' = Absent
    /\ results' = <<>>
    /\ mut' = [n \in Names |-> {}]
    /\ deadAtOpen' = {}
    /\ opened' = <<>>
    /\ queried' = <<>>
    /\ conc' = 0
    /\ UNCHANGED <<tables, last, overwritten, env>>

(***************************************************************************)
(* Specifications.                                                         *)
(***************************************************************************)
Idle ==
    /\ last = NoCall
    /\ pc = "idle"
    /\ query = None
    /\ domain = None
    /\ limit = 0
    /\ domains = <<>>
    /\ idx = 0
    /\ handle = Absent
    /\ results = <<>>
    /\ mut = [n \in Names |-> {}]
    /\ deadAtOpen = {}
    /\ opened = <<>>
    /\ queried = <<>>
    /\ conc = 0
    /\ overwritten = {}

\* one server process: its handlers run one at a time; search is called with
\* any query text and any limit from 0 up
OneProcess ==
    [calls |-> 0, rows |-> MaxDocs, docs |-> AddInputs,
     queries |-> Queries \cup {""}, least |-> 0]
\* several server processes on one store directory, their searches called
\* with a query text and a limit of 1 or more, their adds with a document
\* that has metadata or has none
SharedStore ==
    [calls |-> MaxConcurrent, rows |-> MaxSharedDocs,
     docs |-> {doc \in AddInputs : doc.metadata # PyDict(<<>>)},
     queries |-> Queries, least |-> 1]

\* db = lancedb.connect(".lancedb") on a new directory
Init ==
    /\ tables = [n \in Names |-> Absent]
    /\ env = OneProcess
    /\ Idle

InitShared ==
    /\ tables = [n \in Names |-> Absent]
    /\ env = SharedStore
    /\ Idle

\* rows of the Document schema that another writer of the store left behind:
\* the metadata column is any str
LeftRows ==
    << Document("The sky is blue", "obs1", to_json(PyDict(<< <<"n", PyNum("1")>> >>))),
       Document("sea", None, PyText(<<"{">>)) >>

\* db = lancedb.connect(".lancedb") on a directory that already holds tables
InitStore ==
    /\ tables \in { [n \in Names |-> Absent],
                    [n \in Names |-> IF n = "A" THEN [live |-> TRUE, rows |-> LeftRows]
                                     ELSE EmptyTable] }
    /\ env = OneProcess
    /\ Idle

Next ==
    \/ \E name \in Names : create_domain(name)
    \/ \E name \in Names : delete_domain(name)
    \/ list_domains
    \/ \E name \in Names, doc \in env.docs : add_knowledge(name, doc)
    \/ \E q \in env.queries, dom \in SearchDomains, lim \in env.least..env.rows :
          SearchStart(q, dom, lim)
    \/ SearchOpen
    \/ SearchQuery
    \/ SearchReturn

Spec == Init /\ [][Next]_vars

SpecShared == InitShared /\ [][Next]_vars

SpecStore == InitStore /\ [][Next]_vars

(***************************************************************************)
(* Properties.                                                             *)
(***************************************************************************)
HitsOf(res, d) == SelectSeq(res, LAMBDA e : e.kind = "hit" /\ e.domain = d)
MarkersOf(res, d) == SelectSeq(res, LAMBDA e : e.kind = "error" /\ e.domain = d)
Targets == {domains[i] : i \in DOMAIN domains}
FanOut == ~truthy_str(domain)
\* no storage or provider fault hit this search, and the engine rejected no
\* argument of it
NoFaults ==
    \A i \in DOMAIN results : results[i].error \notin {"storage", "upstream", "invalid"}
NoMarkers == \A i \in DOMAIN results : results[i].kind = "hit"
\* the hits of a query of table d as it is now
Expected(d) == collect(to_list(tables[d].rows, query, limit), d, <<>>)
\* the metadata the document with this text was added with
AddedMetadata(text) == (CHOOSE doc \in AddInputs : doc.text = text).metadata

\* C1: create_domain on a live name never fails because the name exists and
\* replaces the table by an empty one: after create, add(s), create on one
\* name, a search restricted to that name returns no hit.
C1_Overwrite ==
    /\ \A x \in overwritten : tables[x] = EmptyTable
    /\ (last.op = "create_domain" /\ last.ret # "Created domain") => last.err = "storage"
    /\ \A x \in overwritten :
          (pc = "done" /\ domains = <<x>>) => HitsOf(results, x) = <<>>

C1_Witness ==
    \E x \in overwritten : pc = "done" /\ domains = <<x>> /\ results = <<>>

\* C2 as claimed, for the interleavings in which the delete of A lands after
\* the fan-out search over {A, B} is done with A: the result has a failure
\* marker for A (and the hits of B).
C2Scenario(a, b) ==
    /\ pc = "done" /\ FanOut /\ a # b /\ Targets = {a, b}
    /\ "delete" \in mut[a] /\ mut[b] = {}
    /\ NoFaults

C4_HitsOrOneMarker ==
    pc = "done" =>
        \A d \in Names :
            /\ Len(MarkersOf(results, d)) <= 1
            /\ MarkersOf(results, d) = <<>> \/ HitsOf(results, d) = <<>>

\* C5: in a fan-out search over healthy domains each live domain d
\* contributes min(limit, rows of d) hits; the total is their sum and is not
\* capped at limit.
C5_PerDomainLimit ==
    (pc = "done" /\ FanOut /\ NoMarkers) =>
        /\ \A d \in Names :
              Len(HitsOf(results, d)) =
                 IF tables[d].live THEN Min(limit, Len(tables[d].rows)) ELSE 0
        /\ Len(results) = Len(HitsOf(results, "A")) + Len(HitsOf(results, "B"))

C5_Witness ==
    /\ pc = "done" /\ FanOut /\ NoMarkers
    /\ Len(tables["A"].rows) > limit
    /\ Len(tables["B"].rows) >= limit
    /\ Len(results) > limit

\* C6: every hit carries the metadata its document was added with (the empty
\* map included); absent metadata comes back absent.
C6_MetadataRoundTrip ==
    pc = "done" =>
        \A i \in DOMAIN results :
            results[i].kind = "hit" =>
                results[i].metadata = AddedMetadata(results[i].text)

\* C7: a handler called on one name changes no other name's table, and a
\* search restricted to B whose table no call touched returns the hits of B
\* whatever happened to A.
C7_DomainIsolation ==
    /\ [][\A b \in Names :
            tables'[b] # tables[b] =>
                (last'.name = b /\ last'.op \in {"create_domain", "delete_domain",
                                                 "add_knowledge"})]_vars
    /\ [](\A b \in Names :
            (pc = "done" /\ domains = <<b>> /\ tables[b].live /\ mut[b] = {} /\ NoFaults)
                => results = Expected(b))

C7_Witness ==
    /\ pc = "done" /\ domains = <<"B">> /\ tables["B"].live /\ mut["B"] = {}
    /\ "delete" \in mut["A"] /\ ~tables["A"].live
    /\ results = Expected("B") /\ results # <<>>

\* C8: add_knowledge on a name that is not a live domain reports a failure
\* and leaves the store as it was: no domain is created, no row is stored.
C8_NoImplicitCreation ==
    [][(last' # last /\ last'.op = "add_knowledge" /\ ~tables[last'.name].live)
          => (last'.ret = "Failed to add knowledge" /\ last'.err = "notfound"
              /\ tables' = tables)]_vars

C8_Witness ==
    /\ last.op = "add_knowledge" /\ last.err = "notfound"
    /\ ~tables[last.name].live
    /\ \E n \in Names : tables[n].live

\* C9: delete_domain on a live name that reports success has removed the
\* table with its rows; on a name that is not live it fails with not-found
\* and leaves the store as it was.
C9_Delete ==
    [][(last' # last /\ last'.op = "delete_domain") =>
          IF tables[last'.name].live
          THEN IF last'.ret = "Deleted domain"
               THEN tables' = [tables EXCEPT ![last'.name] = Absent]
               ELSE last'.err = "storage" /\ tables' = tables
          ELSE /\ last'.ret = "Failed to delete domain"
               /\ last'.err = "notfound"
               /\ tables' = tables]_vars

C9_Witness ==
    /\ last.op = "delete_domain" /\ last.err = "notfound"
    /\ ~tables[last.name].live
    /\ \E n \in Names : tables[n].rows # <<>>

\* C10: a fan-out search takes its target list once, as the live names at its
\* start, and keeps it: a domain created while it runs adds nothing to the
\* result, and every name of the list is processed once (at most one marker,
\* and the hits of its table when nothing failed or touched it).
C10_Snapshot ==
    /\ [][/\ (pc = "idle" /\ pc' \in {"open", "done"} /\ ~truthy_str(domain'))
              => domains' = table_names(tables)
          /\ (Running /\ pc' # "idle") => domains' = domains]_vars
    /\ []((pc = "done" /\ FanOut) =>
            /\ \A i \in DOMAIN results : results[i].domain \in Targets
            /\ \A d \in Targets :
                  /\ Len(MarkersOf(results, d)) <= 1
                  /\ (MarkersOf(results, d) = <<>> /\ mut[d] = {})
                        => HitsOf(results, d) = Expected(d))

C10_Witness ==
    /\ pc = "done" /\ FanOut /\ results # <<>>
    /\ \E d \in Names : "create" \in mut[d] /\ d \notin Targets /\ tables[d].live

\* C11: add_knowledge is all-or-nothing: when the embedding provider fails
\* during an add on a live domain, the call reports the failure and every
\* table holds exactly the rows it held before; no stored row is without the
\* vector of its text.
C11_AddAllOrNothing ==
    /\ [][(last' # last /\ last'.op = "add_knowledge" /\ last'.err = "upstream")
            => (last'.ret = "Failed to add knowledge" /\ tables' = tables)]_vars
    /\ [](\A n \in Names : \A j \in DOMAIN tables[n].rows :
            tables[n].rows[j].vector = Embed(tables[n].rows[j].text))

C11_Witness ==
    /\ last.op = "add_knowledge" /\ last.err = "upstream"
    /\ tables[last.name].live /\ tables[last.name].rows # <<>>

\* C12: an add_knowledge that reports success has appended exactly one row,
\* with the text and the source of the call, to the named table and changed
\* nothing else; and a search restricted to a live domain d holding k rows
\* (k successful adds since its create) with limit L that met no fault
\* returns exactly min(k, L) hits, each the text and source of a row of d at
\* a distance >= 0.
C12_AddThenSearch ==
    /\ [][(last' # last /\ last'.op = "add_knowledge" /\ last'.ret = "Added knowledge")
            => LET n   == last'.name
                   old == tables[n].rows
                   new == tables'[n].rows
               IN  /\ tables[n].live /\ tables'[n].live
                   /\ Len(new) = Len(old) + 1
                   /\ SubSeq(new, 1, Len(old)) = old
                   /\ \E doc \in AddInputs :
                         /\ new[Len(new)].text = doc.text
                         /\ new[Len(new)].source = doc.source
                   /\ \A x \in Names \ {n} : tables'[x] = tables[x]]_vars
    /\ [](\A d \in Names :
            (pc = "done" /\ domains = <<d>> /\ tables[d].live /\ NoMarkers) =>
                /\ Len(results) = Min(Len(tables[d].rows), limit)
                /\ \A i \in DOMAIN results :
                      /\ results[i].distance >= 0
                      /\ \E j \in DOMAIN tables[d].rows :
                            /\ results[i].text = tables[d].rows[j].text
                            /\ results[i].source = tables[d].rows[j].source
                            /\ results[i].distance =
                                  distance(Embed(results[i].text), Embed(query)))

C12_Witness ==
    /\ pc = "done" /\ domains = <<"A">> /\ tables["A"].live /\ NoMarkers
    /\ Len(tables["A"].rows) = 2 /\ limit = 1 /\ Len(results) = 1
    /\ results[1].text = "The sky is blue" /\ results[1].source = "obs1"

\* C13: list_domains returns exactly the live names, each once: a name is in
\* the list iff its table exists (created and not deleted since), and the
\* store is left as it was.
C13_ListIsLiveSet ==
    /\ [][(last' # last /\ last'.op = "list_domains") => tables' = tables]_vars
    /\ []((last.op = "list_domains" /\ last.err = "")
            => /\ {last.value[i] : i \in DOMAIN last.value} = Live(tables)
               /\ Len(last.value) = Cardinality(Live(tables)))

C13_Witness ==
    /\ last.op = "list_domains" /\ last.value = <<"B">>
    /\ ~tables["A"].live /\ tables["B"].rows # <<>>

\* C14: a search called with a limit below 1 or with an empty query text ends
\* as a hard failure of the call; it never returns a result list.
C14_InvalidInputRaises ==
    (Returning /\ (limit <= 0 \/ query = "")) => pc = "raised"

\* C15: whenever search is given a domain argument (any string, the empty
\* one included), its target list is that one name and every element of the
\* result is tagged with it; only a call without the argument fans out.
C15_DomainRestriction ==
    (pc \in {"open", "query", "done"} /\ domain # None) =>
        /\ domains = <<domain>>
        /\ \A i \in DOMAIN results : results[i].domain = domain

\* C16: every hit of a search result carries one domain name d, a target of
\* the search, and is a row of d's table: a document added to d since d's
\* most recent create, d being live. (For a table that another process
\* re-created or deleted while the search ran, `most recent' has no fixed
\* meaning: those searches are left to C3.)
C16_HitsAreRowsOfTheirDomain ==
    pc = "done" =>
        \A i \in DOMAIN results :
            results[i].kind = "hit" =>
                LET d == results[i].domain
                IN  /\ d \in Targets /\ d \in Names
                    /\ mut[d] \subseteq {"add"} =>
                          /\ tables[d].live
                          /\ \E j \in DOMAIN tables[d].rows :
                                /\ tables[d].rows[j].text = results[i].text
                                /\ tables[d].rows[j].source = results[i].source

C16_Witness ==
    /\ pc = "done" /\ Len(results) = 2
    /\ results[1].kind = "hit" /\ results[1].domain = "A"
    /\ results[2].kind = "hit" /\ results[2].domain = "B"
    /\ results[1].text # results[2].text
    /\ mut["B"] = {"add"}

\* the place of name d in the target list of the search
Place(d) == CHOOSE k \in DOMAIN domains : domains[k] = d

\* C17: in the result of a fan-out search the elements of one domain are
\* contiguous, the groups are in the order of the target list (the store's
\* listing at the start), the hits of one group are in ascending distance,
\* and groups are not merged by distance.
C17_GroupedInListOrder ==
    (pc = "done" /\ FanOut) =>
        /\ domains = SelectSeq(TableOrder, LAMBDA n : n \in Targets)
        /\ \A i, j \in DOMAIN results :
              i < j =>
                 /\ Place(results[i].domain) <= Place(results[j].domain)
                 /\ (results[i].domain = results[j].domain /\ results[j].kind = "hit")
                       => (results[i].kind = "hit"
                           /\ results[i].distance <= results[j].distance)

C17_Witness ==
    /\ pc = "done" /\ FanOut /\ Len(results) = 3
    /\ results[1].domain = "A" /\ results[2].domain = "A" /\ results[3].domain = "B"
    /\ results[1].distance < results[2].distance
    /\ results[3].kind = "hit" /\ results[3].distance < results[1].distance

\* how many times name d is in the sequence s
Times(s, d) == Len(SelectSeq(s, LAMBDA n : n = d))
\* the rounds the running search has ahead of it, twice, minus the half
\* round an opened table is into its round
Ahead == 2 * (Len(domains) - idx) + (IF pc = "open" THEN 1 ELSE 0)

\* C18: one search call opens each target at most once and queries it at
\* most once, reports a failed target once and goes on to the next; every
\* step of the loop brings it nearer its end, and it returns after exactly
\* one round per target, whichever targets failed.
C18_NoRetryAndTermination ==
    /\ [][(Running /\ <<pc, idx>>' # <<pc, idx>>) =>
            /\ idx' >= idx
            /\ pc' \in {"open", "query", "done"}
            /\ pc' = "done" \/ Ahead' < Ahead]_vars
    /\ [](/\ \A d \in Names :
              /\ Times(opened, d) <= 1
              /\ Times(queried, d) <= 1
              /\ Len(MarkersOf(results, d)) <= 1
          /\ pc = "done" =>
                /\ opened = domains
                /\ \A d \in Targets :
                      MarkersOf(results, d) # <<>> \/ Times(queried, d) = 1)

C18_Witness ==
    /\ pc = "done" /\ Len(domains) = 2 /\ opened = domains
    /\ queried = <<domains[2]>>
    /\ MarkersOf(results, domains[1]) # <<>>
    /\ HitsOf(results, domains[2]) # <<>>

\* the messages of the three mutating handlers
Succeeded ==
    [create_domain |-> "Created domain", delete_domain |-> "Deleted domain",
     add_knowledge |-> "Added knowledge"]
FailedTo ==
    [create_domain |-> "Failed to create domain", delete_domain |-> "Failed to delete domain",
     add_knowledge |-> "Failed to add knowledge"]

\* C19: create_domain, delete_domain and add_knowledge never raise: a call
\* either returns its success message, and then the engine operation was
\* done (the table is new and empty, is gone, has one more row), or returns
\* its 'Failed to ...' message for a failure of the engine or the provider,
\* and then the store is as it was.
C19_FailuresAreMessages ==
    /\ [][(last' # last /\ last'.op \in DOMAIN Succeeded) =>
            LET n == last'.name
            IN  \/ /\ last'.ret = Succeeded[last'.op]
                   /\ last'.err = ""
                   /\ \A x \in Names \ {n} : tables'[x] = tables[x]
                   /\ CASE last'.op = "create_domain" -> tables'[n] = EmptyTable
                        [] last'.op = "delete_domain" ->
                              tables[n].live /\ tables'[n] = Absent
                        [] last'.op = "add_knowledge" ->
                              /\ tables[n].live /\ tables'[n].live
                              /\ Len(tables'[n].rows) = Len(tables[n].rows) + 1
                \/ /\ last'.ret = FailedTo[last'.op]
                   /\ last'.err \in {"storage", "notfound", "upstream"}
                   /\ tables' = tables]_vars
    /\ [](last.err = "raised" => last.op = "list_domains")

C19_Witness ==
    /\ last.op = "create_domain" /\ last.ret = "Failed to create domain"
    /\ last.err = "storage"
    /\ tables[last.name].rows # <<>>

====
